---- MODULE Spec2Model ----
(***************************************************************************)
(* Entitlement state machine of the JAYDAWOLFX options terminal:           *)
(* the User record (models.py), the request gates (decorators.py), the     *)
(* signup handler (auth.py) and the billing handlers (app.py,              *)
(* payments.py).                                                           *)
(*                                                                         *)
(* Time is a natural number of clock ticks; a calendar day is DayLen       *)
(* ticks.  A timestamp column that holds NULL is NoneT.                    *)
(***************************************************************************)
EXTENDS Integers, Sequences, FiniteSets, TLC

\* ------------------------------------------------------------------ bounds
\* clock ticks per calendar day
DayLen == 2
\* ticks explored after process start (signups happen in them) and after the
\* end of a trial window
Horizon == 1
\* largest value of analyses_today drawn or reached
MaxAnalyses == 2

\* ------------------------------------------------------- program constants
\* timedelta(days=20) of User.__init__
TRIAL_DAYS == 20
\* timedelta(days=30 * months) of User.upgrade_to, timedelta(days=30) of webhook
SUBSCRIPTION_DAYS == 30
\* PLAN_RANK of decorators.py
RANK_TRIAL == 0
RANK_BASIC == 1
RANK_ELITE == 2

TrialLen == TRIAL_DAYS * DayLen
SubLen == SUBSCRIPTION_DAYS * DayLen
MaxTime == TrialLen + Horizon + 1

\* NULL of a DateTime / Date column, None of a session key
NoneT == 0 - 1
\* NULL of a String column
NoneS == "None"
\* the outcome of an evaluation that raises (datetime compared with None)
TypeError == "TypeError"

\* primary keys of the users table
UserIds == {1, 2}
\* the keys in use when a single account is followed through time
SoloIds == {1}
\* current_user of a request that carries no login cookie
Anonymous == 0
\* billing-provider customer and subscription identifiers
Customers == {"cus_a", "cus_b"}
Subscriptions == {"sub_a"}

\* the instants the clock is observed at: the first ticks after process start
\* and the ticks around the end of a trial window
Instants == (0 .. Horizon) \cup ((TrialLen - 1) .. MaxTime)

VARIABLES
    now,        \* datetime.utcnow(), in ticks
    users,      \* the users table: id -> row
    logged_in,  \* ids that hold a flask_login session cookie
    session,    \* the Flask session dict the page gates read
    resp,       \* the last operation and its response
    threads,    \* the requests in flight that call the User methods
    calc,       \* the pricing call under way: its inputs and its result
    webhook_secret, \* whether STRIPE_WEBHOOK_SECRET is set in the environment
    accounts,   \* the identity columns of the users table: id -> email, username
    scan_cache, \* the module global _scan_cache of scanner.py
    scan_log    \* history: the AI calls that succeeded and the scans served

vars == <<now, users, logged_in, session, resp, threads, calc,
          webhook_secret, accounts, scan_cache, scan_log>>

\* _scan_cache = {'date': None, 'results': None}
EmptyCache == [date |-> NoneT, results |-> NoneS]

\* nothing called, nothing served
EmptyLog == [calls |-> <<>>, served |-> {}]

\* the worker threads that serve requests at the same time
Threads == {"t1", "t2"}

\* no request in flight
Idle ==
    [pc |-> "idle", uid |-> Anonymous, row |-> NoneS, dirty |-> {},
     reload |-> FALSE, allowed |-> NoneS]
NoThreads == [t \in Threads |-> Idle]

\* no pricing call under way
NoCalc == [fn |-> NoneS]

\* datetime.date() of a timestamp
DateOf(t) == t \div DayLen

\* ---------------------------------------------------------------- models.py

\* User.__init__ followed by the column defaults applied at INSERT.
\* trial_start and trial_end come from two separate reads of the clock, t0 and
\* t1; last_analysis_date's default is the bound method of a datetime taken
\* when the module was imported, i.e. the date of process start.
NewUser(t0, t1) ==
    [ plan                   |-> "trial",
      trial_start            |-> t0,
      trial_end              |-> t1 + TrialLen,
      subscription_start     |-> NoneT,
      subscription_end       |-> NoneT,
      stripe_customer_id     |-> NoneS,
      stripe_subscription_id |-> NoneS,
      analyses_today         |-> 0,
      last_analysis_date     |-> DateOf(0) ]

\* User.is_trial_active: plan == 'trial' and utcnow() < trial_end.
\* `and` short-circuits; comparing a datetime with None raises TypeError.
is_trial_active(u, t) ==
    IF u.plan # "trial" THEN "False"
    ELSE IF u.trial_end = NoneT THEN TypeError
    ELSE IF t < u.trial_end THEN "True" ELSE "False"

\* User.has_active_subscription: True for an active trial, else falls off the
\* end of the function (None, falsy).
has_active_subscription(u, t) ==
    IF u.plan = "trial"
    THEN (IF is_trial_active(u, t) = TypeError THEN TypeError
          ELSE IF is_trial_active(u, t) = "True" THEN "True" ELSE "None")
    ELSE "None"

\* effective_plan with the expiry of the trial window left out
effective_plan_no_expiry(u, t) ==
    IF u.plan = "trial" THEN "trial" ELSE "expired"

\* User.effective_plan
effective_plan(u, t) ==
    IF u.plan = "trial"
    THEN (IF is_trial_active(u, t) = TypeError THEN TypeError
          ELSE IF is_trial_active(u, t) = "True" THEN "trial" ELSE "expired")
    ELSE "expired"

\* User.daily_analysis_limit: reads effective_plan, returns 0 on both paths.
daily_analysis_limit(u, t) ==
    IF effective_plan(u, t) = TypeError THEN NoneT ELSE 0

\* The reason strings of can_run_analysis.
ReasonExpired == "Your subscription has expired. Please upgrade to continue."
ReasonLimit == "Daily limit reached"

\* User.can_run_analysis: the row after the call.
can_run_analysis_row(u, t) ==
    IF has_active_subscription(u, t) # "True" THEN u
    ELSE IF u.last_analysis_date # DateOf(t)
         THEN [u EXCEPT !.analyses_today = 0, !.last_analysis_date = DateOf(t)]
         ELSE u

\* User.can_run_analysis: the returned pair <<allowed, reason>>, or TypeError.
can_run_analysis_result(u, t) ==
    IF has_active_subscription(u, t) = TypeError THEN <<TypeError, TypeError>>
    ELSE IF has_active_subscription(u, t) # "True" THEN <<"False", ReasonExpired>>
    ELSE IF can_run_analysis_row(u, t).analyses_today >= daily_analysis_limit(u, t)
         THEN <<"False", ReasonLimit>>
         ELSE <<"True", NoneS>>

\* record_analysis with the reset on a new calendar day left out
record_analysis_no_reset(u, t) ==
    [u EXCEPT !.analyses_today = u.analyses_today + 1, !.last_analysis_date = DateOf(t)]

\* User.record_analysis: the row after the call.
record_analysis(u, t) ==
    LET r == IF u.last_analysis_date # DateOf(t)
             THEN [u EXCEPT !.analyses_today = 0, !.last_analysis_date = DateOf(t)]
             ELSE u
    IN  [r EXCEPT !.analyses_today = r.analyses_today + 1]

\* User.upgrade_to(plan, months=1)
upgrade_to(u, plan, t) ==
    [u EXCEPT !.plan = plan,
              !.subscription_start = t,
              !.subscription_end = t + SubLen]


\* ------------------------------------------------------------ decorators.py

\* PLAN_RANK.get(plan, -1)
PLAN_RANK(plan) ==
    CASE plan = "trial" -> RANK_TRIAL
      [] plan = "basic" -> RANK_BASIC
      [] plan = "elite" -> RANK_ELITE
      [] OTHER -> 0 - 1

\* The session of a client that was never given the keys the page gates read.
EmptySession == [logged_in |-> FALSE, plan |-> NoneS, trial_end |-> NoneT]

\* _get_user_plan: None when not logged in; session.get("plan", "trial");
\* a trial whose trial_end key is present and in the past is "expired".
_get_user_plan(s, t) ==
    IF ~s.logged_in THEN NoneS
    ELSE LET plan == IF s.plan = NoneS THEN "trial" ELSE s.plan
         IN  IF plan = "trial" /\ s.trial_end # NoneT /\ t > s.trial_end
             THEN "expired"
             ELSE plan

\* _require_plan with the rank comparison off by one (<= for <)
_require_plan_strict(min_plan, s, t) ==
    LET plan == _get_user_plan(s, t)
    IN  IF plan = NoneS THEN "login_page"
        ELSE IF plan = "expired" THEN "pricing"
        ELSE IF PLAN_RANK(plan) <= PLAN_RANK(min_plan) THEN "pricing"
        ELSE "handler"

\* _require_plan(min_plan): where the request ends.
_require_plan(min_plan, s, t) ==
    LET plan == _get_user_plan(s, t)
    IN  IF plan = NoneS THEN "login_page"
        ELSE IF plan = "expired" THEN "pricing"
        ELSE IF PLAN_RANK(plan) < PLAN_RANK(min_plan) THEN "pricing"
        ELSE "handler"

\* login_required of decorators.py (alias trial_required)
login_required(s, t) ==
    LET plan == _get_user_plan(s, t)
    IN  IF plan = NoneS THEN "login_page"
        ELSE IF plan = "expired" THEN "pricing"
        ELSE "handler"

\* analysis_gate without its test of the effective plan
analysis_gate_login_only(c, t) ==
    IF c = Anonymous THEN 401 ELSE 200

\* analysis_gate: the status the wrapper answers with, 200 standing for the
\* wrapped handler's own answer; an exception in effective_plan is a 500.
analysis_gate(c, t) ==
    IF c = Anonymous THEN 401
    ELSE IF effective_plan(users[c], t) = TypeError THEN 500
    ELSE IF effective_plan(users[c], t) = "expired" THEN 403
    ELSE 200

\* the 'action' key of analysis_gate's JSON body
gate_action(status) ==
    CASE status = 401 -> "login"
      [] status = 403 -> "upgrade"
      [] OTHER -> NoneS

\* the 'error' key of analysis_gate's JSON body
gate_error(status) ==
    CASE status = 401 -> "Please log in to access this feature."
      [] status = 403 -> "Your trial has expired. Upgrade to continue."
      [] OTHER -> ""

\* ------------------------------------------------------- auth.py: signup

\* A string is a sequence of characters.

\* str.lower() on the characters in use
LowerChar(c) ==
    CASE c = "A" -> "a" [] c = "W" -> "w" [] c = "X" -> "x" [] OTHER -> c
Lower(s) == [i \in DOMAIN s |-> LowerChar(s[i])]

\* str.strip(): leading and trailing blanks removed
RECURSIVE LStrip(_)
LStrip(s) == IF s # <<>> /\ Head(s) = " " THEN LStrip(Tail(s)) ELSE s
RECURSIVE RStrip(_)
RStrip(s) ==
    IF s # <<>> /\ s[Len(s)] = " " THEN RStrip(SubSeq(s, 1, Len(s) - 1)) ELSE s
Strip(s) == RStrip(LStrip(s))

\* the character classes of the patterns, over the characters in use
Letters == {"a", "b", "f", "i", "l", "o", "w", "x", "A", "W", "X"}
Digits == {"1", "2"}
LocalChars == Letters \cup Digits \cup {".", "_", "%", "+", "-"}
DomainChars == Letters \cup Digits \cup {".", "-"}
UsernameChars == Letters \cup Digits \cup {"_"}

\* validate_email: ^[a-zA-Z0-9._%+-]+@[a-zA-Z0-9.-]+\.[a-zA-Z]{2,}$
validate_email(email) ==
    \E i, j \in DOMAIN email :
        /\ 1 < i /\ i + 1 < j /\ j + 2 <= Len(email)
        /\ email[i] = "@" /\ email[j] = "."
        /\ \A k \in 1 .. (i - 1) : email[k] \in LocalChars
        /\ \A k \in (i + 1) .. (j - 1) : email[k] \in DomainChars
        /\ \A k \in (j + 1) .. Len(email) : email[k] \in Letters

\* validate_password: at least 8 characters, at least one digit
validate_password(password) ==
    Len(password) >= 8 /\ \E k \in DOMAIN password : password[k] \in Digits

\* the username tests of signup: 3 to 30 characters out of [a-zA-Z0-9_]
validate_username(username) ==
    /\ Len(username) >= 3 /\ Len(username) <= 30
    /\ \A k \in DOMAIN username : username[k] \in UsernameChars

\* signup's reading of the request: email stripped and lower-cased, username
\* stripped
FormEmail(form) == Lower(Strip(form.email))
FormUsername(form) == Strip(form.username)

\* the validation part of signup: TRUE when the request gets past the 400s
Validates(form) ==
    /\ FormEmail(form) # <<>> /\ FormUsername(form) # <<>> /\ form.password # <<>>
    /\ validate_email(FormEmail(form))
    /\ validate_username(FormUsername(form))
    /\ validate_password(form.password)

\* User.query.filter_by(email=email).first() or
\* User.query.filter_by(username=username).first() finds a row
Duplicate(tbl, email, username) ==
    \E a \in DOMAIN tbl : tbl[a].email = email \/ tbl[a].username = username

\* the identity columns User.__init__ stores: email.lower().strip(),
\* username.strip()
Identity(email, username) ==
    [email |-> Strip(Lower(email)), username |-> Strip(username)]

\* the unique=True constraints on email and username: the INSERT of row r
\* raises IntegrityError when a stored row holds the same email or username
InsertRaises(tbl, r) ==
    \E a \in DOMAIN tbl : tbl[a].email = r.email \/ tbl[a].username = r.username

\* the identity the single account followed through time signs up with
SoloIdentity ==
    Identity(<<"a", "@", "x", ".", "i", "o">>, <<"w", "o", "l", "f">>)

\* ------------------------------------------------------------------ actions

\* what a request left behind: the operation, the user it acted for, the
\* status code, whether the wrapped handler ran, the target or 'action' of the
\* answer, and the 'error' text of a JSON body (empty when it has none)
Response(op, uid, status, invoked, detail) ==
    [op |-> op, uid |-> uid, status |-> status, invoked |-> invoked,
     detail |-> detail, error |-> ""]

\* a request comes from a logged-in user or from an anonymous client
Clients == logged_in \cup {Anonymous}

\* the clock advances to a later observed instant
Tick ==
    /\ \E t \in Instants : t > now /\ now' = t
    /\ UNCHANGED <<users, logged_in, session, resp, threads, calc,
                   webhook_secret, accounts, scan_cache, scan_log>>

\* the primary key the next INSERT gets
NextId == Cardinality(DOMAIN users) + 1

\* what a signup request carries: well-formed unused credentials, malformed
\* ones, or an email or username some row already holds
SignupForms == {"valid", "invalid", "taken"}

\* auth.signup: 400 on malformed input, 409 on a taken email or username;
\* else User(...) reads the clock twice, d ticks apart, the row is inserted
\* and the user logged in.  (last_login, which nothing reads, is left out.)
Signup(ids, form) ==
    IF form = "invalid"
    THEN /\ resp' = Response("signup", Anonymous, 400, FALSE, NoneS)
         /\ UNCHANGED <<now, users, logged_in, session, threads, calc,
                        webhook_secret, accounts, scan_cache, scan_log>>
    ELSE IF form = "taken"
    THEN /\ DOMAIN users # {}
         /\ resp' = Response("signup", Anonymous, 409, FALSE, NoneS)
         /\ UNCHANGED <<now, users, logged_in, session, threads, calc,
                        webhook_secret, accounts, scan_cache, scan_log>>
    ELSE /\ NextId \in ids
         /\ \E d \in {0, 1} :
             /\ now + d <= Horizon
             /\ now' = now + d
             /\ users' = users @@ (NextId :> NewUser(now, now + d))
         /\ accounts' = accounts @@ (NextId :> SoloIdentity)
         /\ logged_in' = logged_in \cup {NextId}
         /\ resp' = Response("signup", NextId, 201, TRUE, NoneS)
         /\ UNCHANGED <<session, threads, calc, webhook_secret, scan_cache, scan_log>>

\* auth.login as user u with the right password (ok) or a wrong one
Login(u, ok) ==
    /\ IF ok /\ u \in DOMAIN users
       THEN /\ logged_in' = logged_in \cup {u}
            /\ resp' = Response("login", u, 200, TRUE, NoneS)
       ELSE /\ resp' = Response("login", Anonymous, 401, FALSE, NoneS)
            /\ UNCHANGED logged_in
    /\ UNCHANGED <<now, users, session, threads, calc,
                   webhook_secret, accounts, scan_cache, scan_log>>

\* auth.logout behind flask_login's login_required
Logout(c) ==
    /\ c \in Clients
    /\ IF c = Anonymous
       THEN /\ resp' = Response("logout", c, 302, FALSE, "login_page")
            /\ UNCHANGED logged_in
       ELSE /\ logged_in' = logged_in \ {c}
            /\ resp' = Response("logout", c, 200, TRUE, NoneS)
    /\ UNCHANGED <<now, users, session, threads, calc,
                   webhook_secret, accounts, scan_cache, scan_log>>

\* the routes wrapped in @analysis_gate
GatedRoutes == {"autofill", "greeks", "simulate"}

\* /api/autofill, /api/greeks, /api/simulate: analysis_gate, then the handler,
\* which prices and answers and writes nothing to the user row.
ApiRequest(c, route) ==
    /\ c \in Clients
    /\ resp' = [Response(route, c, analysis_gate(c, now),
                         analysis_gate(c, now) = 200, gate_action(analysis_gate(c, now)))
                    EXCEPT !.error = gate_error(analysis_gate(c, now))]
    /\ UNCHANGED <<now, users, logged_in, session, threads, calc,
                   webhook_secret, accounts, scan_cache, scan_log>>

\* -------------------------------------------------------- billing handlers

\* the unique=True columns of the users table: a commit that would store the
\* same non-NULL identifier on two rows raises IntegrityError
UniqueIds(tbl) ==
    \A a, b \in DOMAIN tbl :
        a # b =>
            /\ (tbl[a].stripe_customer_id # NoneS
                    => tbl[a].stripe_customer_id # tbl[b].stripe_customer_id)
            /\ (tbl[a].stripe_subscription_id # NoneS
                    => tbl[a].stripe_subscription_id # tbl[b].stripe_subscription_id)

\* the table after a commit of tbl, or the old table when the commit raises
Commit(tbl) == IF UniqueIds(tbl) THEN tbl ELSE users

\* User.query.filter_by(stripe_customer_id=c): the matching ids (a None
\* argument is compared with IS NULL)
ByCustomer(c) == {u \in DOMAIN users : users[u].stripe_customer_id = c}

\* plan names a checkout session's metadata can carry: app.py creates
\* sessions for basic and elite, payments.py for basic and pro
MetadataPlans == {"basic", "elite", "pro"}
\* values of the ?plan= query argument of /payment-success: any string
QueryPlans == {"basic", "elite", "vip"}

\* app.payment_success: flask_login's login_required, then the plan named in
\* the query string is stored.
PaymentSuccess(c, plan) ==
    /\ c \in Clients
    /\ IF c = Anonymous
       THEN /\ resp' = Response("payment_success", c, 302, FALSE, "login_page")
            /\ UNCHANGED users
       ELSE /\ users' = [users EXCEPT ![c].plan = plan]
            /\ resp' = Response("payment_success", c, 302, TRUE, "index")
    /\ UNCHANGED <<now, logged_in, session, threads, calc,
                   webhook_secret, accounts, scan_cache, scan_log>>

\* what stripe.checkout.Session.retrieve(session_id) finds: nothing (no
\* session_id, or an unknown one, which raises), or a session with the plan
\* of its metadata and its subscription
NoCheckout == [found |-> FALSE, plan |-> NoneS, subscription |-> NoneS]
Checkouts ==
    {[found |-> TRUE, plan |-> p, subscription |-> sub] :
        p \in MetadataPlans, sub \in Subscriptions \cup {NoneS}}

\* payments.success: the plan of the retrieved session's metadata goes to
\* upgrade_to, which commits; then the session's subscription id is stored;
\* any exception is swallowed.
PaymentsSuccess(c, co) ==
    /\ c \in Clients
    /\ IF c = Anonymous
       THEN /\ resp' = Response("payments.success", c, 302, FALSE, "login_page")
            /\ UNCHANGED users
       ELSE /\ resp' = Response("payments.success", c, 302, TRUE, "index")
            /\ IF ~co.found THEN UNCHANGED users
               ELSE LET up == [users EXCEPT ![c] = upgrade_to(users[c], co.plan, now)]
                        st == [up EXCEPT ![c].stripe_subscription_id = co.subscription]
                    IN  users' = IF UniqueIds(st) THEN st ELSE up
    /\ UNCHANGED <<now, logged_in, session, threads, calc,
                   webhook_secret, accounts, scan_cache, scan_log>>

\* PRICE_IDS of payments.py
PRICE_IDS == {"basic", "pro"}

\* payments.create_checkout (prices configured): 400 for a plan outside
\* PRICE_IDS; a user without a billing customer gets the identifier the
\* provider creates, which no row holds yet.
CreateCheckout(c, plan, cust) ==
    /\ c \in Clients
    /\ IF c = Anonymous
       THEN /\ resp' = Response("create_checkout", c, 302, FALSE, "login_page")
            /\ UNCHANGED users
       ELSE IF plan \notin PRICE_IDS
       THEN /\ resp' = Response("create_checkout", c, 400, TRUE, NoneS)
            /\ UNCHANGED users
       ELSE /\ resp' = Response("create_checkout", c, 200, TRUE, NoneS)
            /\ IF users[c].stripe_customer_id # NoneS THEN UNCHANGED users
               ELSE /\ ByCustomer(cust) = {}
                    /\ users' = [users EXCEPT ![c].stripe_customer_id = cust]
    /\ UNCHANGED <<now, logged_in, session, threads, calc,
                   webhook_secret, accounts, scan_cache, scan_log>>

\* a billing event as the handlers read it: metadata.user_id and
\* metadata.plan, customer and subscription of data.object, and its status
Event(type, uid, plan, cust, sub, active) ==
    [type |-> type, user_id |-> uid, plan |-> plan, customer |-> cust,
     subscription |-> sub, active |-> active]

\* the events the provider sends about the accounts ids and customers custs
Events(ids, custs) ==
    {Event("checkout.session.completed", uid, plan, cust, sub, FALSE) :
        uid \in ids, plan \in MetadataPlans, cust \in custs, sub \in Subscriptions}
    \cup {Event("customer.subscription.deleted", Anonymous, NoneS, cust, NoneS, FALSE) :
        cust \in custs \cup {NoneS}}
    \cup {Event("invoice.payment_succeeded", Anonymous, NoneS, cust, NoneS, FALSE) :
        cust \in custs \cup {NoneS}}
    \cup {Event("customer.subscription.updated", Anonymous, NoneS, cust, NoneS, active) :
        cust \in custs \cup {NoneS}, active \in BOOLEAN}

\* app.stripe_webhook: 400 unless the signature verifies; a completed checkout
\* stores plan, customer and subscription on the user of metadata.user_id; a
\* deleted subscription puts the customer's user back on plan 'trial'.  A
\* failing commit is caught and logged.
StripeWebhook(verified, e) ==
    /\ IF ~verified
       THEN /\ resp' = Response("stripe_webhook", Anonymous, 400, FALSE, NoneS)
            /\ UNCHANGED users
       ELSE /\ resp' = Response("stripe_webhook", Anonymous, 200, TRUE, e.type)
            /\ CASE e.type = "checkout.session.completed" ->
                     IF e.user_id \in DOMAIN users
                     THEN users' = Commit([users EXCEPT
                                        ![e.user_id].plan = e.plan,
                                        ![e.user_id].stripe_customer_id = e.customer,
                                        ![e.user_id].stripe_subscription_id = e.subscription])
                     ELSE UNCHANGED users
                 [] e.type = "customer.subscription.deleted" ->
                     IF ByCustomer(e.customer) = {} THEN UNCHANGED users
                     ELSE \E u \in ByCustomer(e.customer) :
                            users' = [users EXCEPT ![u].plan = "trial"]
                 [] OTHER -> UNCHANGED users
    /\ UNCHANGED <<now, logged_in, session, threads, calc,
                   webhook_secret, accounts, scan_cache, scan_log>>

\* the try block of payments.webhook: with STRIPE_WEBHOOK_SECRET set,
\* stripe.Webhook.construct_event raises unless the signature verifies;
\* without it, stripe.Event.construct_from builds the event from the request's
\* JSON and looks at no signature.  TRUE when an event comes out of it.
construct_event(secret, verified) ==
    IF secret THEN verified ELSE TRUE

\* payments.webhook: 400 when no event could be constructed; a paid invoice or
\* an active updated subscription moves subscription_end to 30 days from now;
\* a deleted subscription stores plan 'expired' and clears the subscription id.
PaymentsWebhook(verified, e) ==
    /\ IF ~construct_event(webhook_secret, verified)
       THEN /\ resp' = Response("payments.webhook", Anonymous, 400, FALSE, NoneS)
            /\ UNCHANGED users
       ELSE /\ resp' = Response("payments.webhook", Anonymous, 200, TRUE, e.type)
            /\ IF ByCustomer(e.customer) = {} THEN UNCHANGED users
               ELSE \E u \in ByCustomer(e.customer) :
                     CASE e.type = "invoice.payment_succeeded" ->
                            users' = [users EXCEPT ![u].subscription_end = now + SubLen]
                       [] e.type = "customer.subscription.deleted" ->
                            users' = [users EXCEPT ![u].plan = "expired",
                                                   ![u].stripe_subscription_id = NoneS]
                       [] e.type = "customer.subscription.updated" ->
                            IF e.active
                            THEN users' = [users EXCEPT ![u].subscription_end = now + SubLen]
                            ELSE UNCHANGED users
                       [] OTHER -> UNCHANGED users
    /\ UNCHANGED <<now, logged_in, session, threads, calc,
                   webhook_secret, accounts, scan_cache, scan_log>>

\* ------------------------------------------------ User methods, page gates

\* a call of User.can_run_analysis on row u: the pair it returns, and the
\* counter reset it commits
CanRunAnalysis(u) ==
    /\ u \in DOMAIN users
    /\ users' = [users EXCEPT ![u] = can_run_analysis_row(users[u], now)]
    /\ resp' = Response("can_run_analysis", u, 0,
                        can_run_analysis_result(users[u], now)[1] = "True",
                        can_run_analysis_result(users[u], now)[2])
    /\ UNCHANGED <<now, logged_in, session, threads, calc,
                   webhook_secret, accounts, scan_cache, scan_log>>

\* a call of User.record_analysis on row u
RecordAnalysis(u) ==
    /\ u \in DOMAIN users
    /\ record_analysis(users[u], now).analyses_today <= MaxAnalyses
    /\ users' = [users EXCEPT ![u] = record_analysis(users[u], now)]
    /\ resp' = Response("record_analysis", u, 0, TRUE, NoneS)
    /\ UNCHANGED <<now, logged_in, session, threads, calc,
                   webhook_secret, accounts, scan_cache, scan_log>>

\* an evaluation of effective_plan that stores 'expired' on the row once the
\* trial window is seen to be over
EffectivePlanWriteBack(u) ==
    /\ u \in DOMAIN users
    /\ users' = IF users[u].plan = "trial" /\ effective_plan(users[u], now) = "expired"
                THEN [users EXCEPT ![u].plan = "expired"] ELSE users
    /\ resp' = Response("effective_plan", u, 0, TRUE, effective_plan(users[u], now))
    /\ UNCHANGED <<now, logged_in, session, threads, calc,
                   webhook_secret, accounts, scan_cache, scan_log>>

\* an evaluation of the property User.effective_plan on row u: it reads plan,
\* trial_end and the clock, and assigns nothing
EffectivePlan(u) ==
    /\ u \in DOMAIN users
    /\ resp' = Response("effective_plan", u, 0, TRUE, effective_plan(users[u], now))
    /\ UNCHANGED <<now, users, logged_in, session, threads, calc,
                   webhook_secret, accounts, scan_cache, scan_log>>

\* the pages behind basic_required and elite_required
MinPlans == {"basic", "elite"}

\* basic_required = _require_plan("basic"), elite_required = _require_plan("elite")
GateName(min_plan) == IF min_plan = "basic" THEN "basic_required" ELSE "elite_required"

\* /ai-scanner (basic), /ai-analysis, /wolf-elite, /forex (elite):
\* flask_login's login_required, then _require_plan(min_plan) on the session.
PageRequest(c, min_plan) ==
    /\ c \in Clients
    /\ IF c = Anonymous
       THEN resp' = Response("page", c, 302, FALSE, "login_page")
       ELSE resp' = Response(GateName(min_plan), c,
                             IF _require_plan(min_plan, session, now) = "handler"
                             THEN 200 ELSE 302,
                             _require_plan(min_plan, session, now) = "handler",
                             _require_plan(min_plan, session, now))
    /\ UNCHANGED <<now, users, logged_in, session, threads, calc,
                   webhook_secret, accounts, scan_cache, scan_log>>

\* a view behind login_required / trial_required of decorators.py
TrialPage ==
    /\ resp' = Response("trial_required", Anonymous,
                        IF login_required(session, now) = "handler" THEN 200 ELSE 302,
                        login_required(session, now) = "handler",
                        login_required(session, now))
    /\ UNCHANGED <<now, users, logged_in, session, threads, calc,
                   webhook_secret, accounts, scan_cache, scan_log>>

\* stored plans of the rows drawn
StoredPlans == {"trial", "basic", "elite", "expired"}

\* rows as signup and the billing handlers leave them, with the usage
\* counters record_analysis writes, observed from instant t on
Rows(t) ==
    { [ plan                   |-> p,
        trial_start            |-> t0,
        trial_end              |-> t0 + d + TrialLen,
        subscription_start     |-> IF p \in {"basic", "elite"} THEN t0 ELSE NoneT,
        subscription_end       |-> IF p \in {"basic", "elite"} THEN t0 + SubLen ELSE NoneT,
        stripe_customer_id     |-> NoneS,
        stripe_subscription_id |-> NoneS,
        analyses_today         |-> n,
        last_analysis_date     |-> day ] :
      p \in StoredPlans, t0 \in 0 .. Horizon, d \in {0, 1},
      n \in 0 .. MaxAnalyses, day \in {DateOf(t) - 1, DateOf(t)} }

\* The User methods on one stored row, from just before the end of the trial
\* window.
InitUser ==
    /\ now = TrialLen - 1
    /\ users \in {(1 :> r) : r \in Rows(TrialLen - 1)}
    /\ logged_in = {1}
    /\ session = EmptySession
    /\ resp = Response("start", Anonymous, 0, FALSE, NoneS)
    /\ threads = NoThreads
    /\ calc = NoCalc
    /\ webhook_secret = TRUE
    /\ accounts = <<>>
    /\ scan_cache = EmptyCache
    /\ scan_log = EmptyLog

NextUser ==
    \/ Tick
    \/ \E u \in SoloIds : CanRunAnalysis(u)
    \/ \E u \in SoloIds : RecordAnalysis(u)
    \/ \E u \in SoloIds : EffectivePlan(u)
    \/ \E c \in SoloIds \cup {Anonymous}, route \in GatedRoutes : ApiRequest(c, route)

SpecUser == InitUser /\ [][NextUser]_vars

\* plan values a session can carry
SessionPlans == {NoneS, "trial", "basic", "elite", "expired", "pro"}

\* sessions as a login that fills the keys _get_user_plan reads can leave them
Sessions ==
    { [logged_in |-> l, plan |-> p, trial_end |-> te] :
      l \in BOOLEAN, p \in SessionPlans,
      te \in {NoneT} \cup ((TrialLen - 1) .. (TrialLen + 1)) }

\* The page gates on one session, around the end of the trial window.
InitGate ==
    /\ now = TrialLen - 1
    /\ users = (1 :> NewUser(0, 0))
    /\ logged_in = {1}
    /\ session \in Sessions
    /\ resp = Response("start", Anonymous, 0, FALSE, NoneS)
    /\ threads = NoThreads
    /\ calc = NoCalc
    /\ webhook_secret = TRUE
    /\ accounts = <<>>
    /\ scan_cache = EmptyCache
    /\ scan_log = EmptyLog

NextGate ==
    \/ Tick
    \/ \E c \in SoloIds, m \in MinPlans : PageRequest(c, m)
    \/ TrialPage

SpecGate == InitGate /\ [][NextGate]_vars

\* ------------------------------------------- concurrent calls of the methods

\* Each request runs in its own thread with its own SQLAlchemy session:
\* load_user reads the row into an object of that session, the methods work on
\* the object, db.session.commit() writes the columns that changed and expires
\* the object, so that its next attribute access reads the row again.

\* the object of thread t as its next attribute access sees it
Attr(t) ==
    IF threads[t].reload THEN users[threads[t].uid] ELSE threads[t].row

\* the columns of the usage counter in which object b differs from object a
Dirty(a, b) ==
    {f \in {"analyses_today", "last_analysis_date"} : a[f] # b[f]}

\* UPDATE users SET <the dirty columns of row r> WHERE id = u
Flush(tbl, u, r, dirty) ==
    [tbl EXCEPT ![u] = [f \in DOMAIN tbl[u] |-> IF f \in dirty THEN r[f] ELSE tbl[u][f]]]

\* load_user(user_id): User.query.get in the session of thread t
LoadUser(t, u) ==
    /\ threads[t].pc = "idle"
    /\ u \in DOMAIN users
    /\ threads' = [threads EXCEPT ![t] =
            [pc |-> "loaded", uid |-> u, row |-> users[u], dirty |-> {},
             reload |-> FALSE, allowed |-> NoneS]]
    /\ UNCHANGED <<now, users, logged_in, session, resp, calc,
                   webhook_secret, accounts, scan_cache, scan_log>>

\* can_run_analysis up to its commit: the subscription test, then the reset of
\* the counter on a new day
CheckSubscription(t) ==
    /\ threads[t].pc \in {"loaded", "checked", "recorded"}
    /\ LET u   == threads[t].uid
           row == Attr(t)
           has == has_active_subscription(row, now)
           new == can_run_analysis_row(row, now)
       IN  IF has # "True"
           THEN /\ threads' = [threads EXCEPT ![t].pc = "checked", ![t].row = row,
                                   ![t].reload = FALSE,
                                   ![t].allowed = IF has = TypeError THEN TypeError
                                                  ELSE "False"]
                /\ UNCHANGED users
           ELSE /\ users' = Flush(users, u, new, Dirty(row, new))
                /\ threads' = [threads EXCEPT ![t].pc = "limit", ![t].row = new,
                                   ![t].reload = (Dirty(row, new) # {}),
                                   ![t].allowed = NoneS]
    /\ UNCHANGED <<now, logged_in, session, resp, calc,
                   webhook_secret, accounts, scan_cache, scan_log>>

\* can_run_analysis after its commit: the counter against daily_analysis_limit
CheckLimit(t) ==
    /\ threads[t].pc = "limit"
    /\ LET row == Attr(t)
       IN  threads' = [threads EXCEPT ![t].pc = "checked", ![t].row = row,
                           ![t].reload = FALSE,
                           ![t].allowed =
                               IF row.analyses_today >= daily_analysis_limit(row, now)
                               THEN "False" ELSE "True"]
    /\ UNCHANGED <<now, users, logged_in, session, resp, calc,
                   webhook_secret, accounts, scan_cache, scan_log>>

\* record_analysis up to its commit: reset on a new day, then += 1 on the
\* object
RecordCount(t) ==
    /\ threads[t].pc \in {"loaded", "checked", "recorded"}
    /\ LET row == Attr(t)
           new == record_analysis(row, now)
       IN  /\ new.analyses_today <= MaxAnalyses
           /\ threads' = [threads EXCEPT ![t].pc = "commit", ![t].row = new,
                               ![t].reload = FALSE, ![t].dirty = Dirty(row, new)]
    /\ UNCHANGED <<now, users, logged_in, session, resp, calc,
                   webhook_secret, accounts, scan_cache, scan_log>>

\* the db.session.commit() of record_analysis
RecordCommit(t) ==
    /\ threads[t].pc = "commit"
    /\ users' = Flush(users, threads[t].uid, threads[t].row, threads[t].dirty)
    /\ threads' = [threads EXCEPT ![t].pc = "recorded", ![t].reload = TRUE,
                        ![t].dirty = {}]
    /\ UNCHANGED <<now, logged_in, session, resp, calc,
                   webhook_secret, accounts, scan_cache, scan_log>>

\* the request of thread t ends and its session is removed
Finish(t) ==
    /\ threads[t].pc \in {"loaded", "checked", "recorded"}
    /\ threads' = [threads EXCEPT ![t] = Idle]
    /\ UNCHANGED <<now, users, logged_in, session, resp, calc,
                   webhook_secret, accounts, scan_cache, scan_log>>

\* the rows the concurrent requests start from
RaceRows ==
    {r \in Rows(TrialLen - 1) : r.plan \in {"trial", "basic"} /\ r.trial_start = 0}

\* Two requests of one user in flight, from just before the end of a day.
InitRace ==
    /\ now = TrialLen - 1
    /\ users \in {(1 :> r) : r \in RaceRows}
    /\ logged_in = {1}
    /\ session = EmptySession
    /\ resp = Response("start", Anonymous, 0, FALSE, NoneS)
    /\ threads = NoThreads
    /\ calc = NoCalc
    /\ webhook_secret = TRUE
    /\ accounts = <<>>
    /\ scan_cache = EmptyCache
    /\ scan_log = EmptyLog

NextRace ==
    \/ Tick
    \/ \E t \in Threads, u \in SoloIds : LoadUser(t, u)
    \/ \E t \in Threads : CheckSubscription(t)
    \/ \E t \in Threads : CheckLimit(t)
    \/ \E t \in Threads : RecordCount(t)
    \/ \E t \in Threads : RecordCommit(t)
    \/ \E t \in Threads : Finish(t)

SpecRace == InitRace /\ [][NextRace]_vars

\* the billing customers of the single account followed through time
SoloCustomers == {"cus_a"}

Init ==
    /\ now = 0
    /\ users = <<>>
    /\ logged_in = {}
    /\ session = EmptySession
    /\ resp = Response("start", Anonymous, 0, FALSE, NoneS)
    /\ threads = NoThreads
    /\ calc = NoCalc
    /\ webhook_secret \in BOOLEAN
    /\ accounts = <<>>
    /\ scan_cache = EmptyCache
    /\ scan_log = EmptyLog

Next ==
    \/ Tick
    \/ \E form \in SignupForms : Signup(SoloIds, form)
    \/ \E u \in SoloIds, ok \in BOOLEAN : Login(u, ok)
    \/ \E c \in SoloIds \cup {Anonymous} : Logout(c)
    \/ \E c \in SoloIds \cup {Anonymous}, route \in GatedRoutes : ApiRequest(c, route)
    \/ \E c \in SoloIds \cup {Anonymous}, m \in MinPlans : PageRequest(c, m)
    \/ \E c \in SoloIds \cup {Anonymous}, plan \in QueryPlans : PaymentSuccess(c, plan)
    \/ \E c \in SoloIds \cup {Anonymous}, co \in Checkouts \cup {NoCheckout} :
            PaymentsSuccess(c, co)
    \/ \E c \in SoloIds \cup {Anonymous}, plan \in MetadataPlans, cust \in SoloCustomers :
            CreateCheckout(c, plan, cust)
    \/ \E verified \in BOOLEAN, e \in Events(UserIds, SoloCustomers) :
            StripeWebhook(verified, e)
    \/ \E verified \in BOOLEAN, e \in Events(UserIds, SoloCustomers) :
            PaymentsWebhook(verified, e)

Spec == Init /\ [][Next]_vars

\* ------------------------------------------------- app.py: float arithmetic

\* A finite float is a fixed-point integer in units of 10^-6.  The
\* operators below compute products, quotients and the library functions the
\* pricing code calls to that resolution (a few units of 10^-6), truncating
\* toward zero.  An operator of the form CHOOSE v \in {F(x) : x \in {e}} : TRUE
\* is F(e) with e evaluated once.
SC == 1000000

\* float('nan'): every comparison with it is False
NaN == 0 - 2000000000

\* a finite float above 1.34e154, whose square overflows
Huge == 2000000000

Abs(x) == IF x < 0 THEN 0 - x ELSE x
Sgn(x) == IF x < 0 THEN 0 - 1 ELSE 1
Max(a, b) == IF a >= b THEN a ELSE b

\* x * y for x, y >= 0
MulAbs(x, y) ==
    LET xh == x \div 1000
        xl == x % 1000
        yh == y \div 1000
        yl == y % 1000
        m  == xh * yl + xl * yh
    IN  xh * yh + m \div 1000 + ((m % 1000) * 1000 + xl * yl) \div SC

\* a * b
Mul(a, b) ==
    CHOOSE v \in {Sgn(x) * Sgn(y) * MulAbs(Abs(x), Abs(y)) : x \in {a}, y \in {b}} : TRUE

\* n more decimal digits of r / b, appended to acc
RECURSIVE DivDigits(_, _, _, _)
DivDigits(r, b, n, acc) ==
    IF n = 0 THEN acc
    ELSE DivDigits((r * 10) % b, b, n - 1, acc * 10 + (r * 10) \div b)

\* a / b, b # 0
Div(a, b) ==
    CHOOSE v \in {Sgn(x) * Sgn(y) * DivDigits(Abs(x) % Abs(y), Abs(y), 6, Abs(x) \div Abs(y)) :
                    x \in {a}, y \in {b}} : TRUE

\* x / n for an integer n > 0
Over(a, n) == CHOOSE v \in {Sgn(x) * (Abs(x) \div n) : x \in {a}} : TRUE

\* round(x, n): to the nearest multiple of unit (10^-n), ties to even
Round(a, unit) ==
    CHOOSE v \in {Sgn(x) * unit
                    * (IF 2 * (Abs(x) % unit) > unit
                          \/ (2 * (Abs(x) % unit) = unit /\ (Abs(x) \div unit) % 2 = 1)
                       THEN Abs(x) \div unit + 1 ELSE Abs(x) \div unit) :
                    x \in {a}} : TRUE

\* np.sqrt(x), x > 0: Newton's iteration from above
RECURSIVE SqrtFrom(_, _)
SqrtFrom(x, s) ==
    CHOOSE v \in {IF n >= s THEN s ELSE SqrtFrom(x, n) : n \in {(s + Div(x, s)) \div 2}} : TRUE

Sqrt(a) == CHOOSE v \in {SqrtFrom(x, Max(x, SC)) : x \in {a}} : TRUE

\* the series t/n + t y2/(n+2) + ... of atanh, from term t = y^n on
RECURSIVE AtanhSeries(_, _, _)
AtanhSeries(y2, t, n) ==
    IF t = 0 THEN 0
    ELSE t \div n + (CHOOSE v \in {AtanhSeries(y2, u, n + 2) : u \in {Mul(t, y2)}} : TRUE)

\* np.log(x) for x = 2^k * m with m in [0.75, 1.5): k ln 2 + 2 atanh((m-1)/(m+1))
RECURSIVE LnFrom(_, _)
LnFrom(m, k) ==
    IF m >= 1500000 THEN LnFrom(m \div 2, k + 1)
    ELSE IF m < 750000 THEN LnFrom(2 * m, k - 1)
    ELSE CHOOSE v \in {k * 693147 + 2 * AtanhSeries(Mul(y, y), y, 1) :
                        y \in {Div(m - SC, m + SC)}} : TRUE

\* np.log(x), x > 0
Ln(a) == CHOOSE v \in {LnFrom(x, 0) : x \in {a}} : TRUE

\* 2^k
RECURSIVE Pow2(_)
Pow2(k) == IF k = 0 THEN 1 ELSE 2 * Pow2(k - 1)

\* the Taylor series of e^f from term t = f^n / n! on, 0 <= f < ln 2
RECURSIVE ExpSeries(_, _, _)
ExpSeries(f, t, n) ==
    IF t = 0 THEN 0
    ELSE t + (CHOOSE v \in {ExpSeries(f, u, n + 1) : u \in {Mul(t, f) \div (n + 1)}} : TRUE)

\* np.exp(x), x <= 0: x = f - k ln 2; below e^-20 the result is 0 to 10^-6
Exp(a) ==
    CHOOSE v \in {IF x < 0 - 20 * SC THEN 0
                  ELSE ExpSeries(x + ((0 - x + 693146) \div 693147) * 693147, SC, 0)
                            \div Pow2((0 - x + 693146) \div 693147) :
                    x \in {a}} : TRUE

\* norm.pdf(x) = e^(-x^2/2) / sqrt(2 pi); 0 to 10^-6 outside [-6, 6]
Pdf(a) ==
    CHOOSE v \in {IF Abs(x) >= 6 * SC THEN 0 ELSE Mul(Exp(0 - Mul(x, x) \div 2), 398942) :
                    x \in {a}} : TRUE

\* the polynomial of the five-term approximation of the normal integral
CdfPoly(t) ==
    Mul(t, 319382 + Mul(t, 0 - 356564 + Mul(t, 1781478
            + Mul(t, 0 - 1821256 + Mul(t, 1330274)))))

\* norm.cdf(x) for x >= 0: 1 - pdf(x) * poly(1 / (1 + 0.2316419 x))
CdfUpper(x) ==
    IF x >= 6 * SC THEN SC
    ELSE SC - Mul(Pdf(x),
                  CHOOSE v \in {CdfPoly(t) : t \in {Div(SC, SC + Mul(231642, x))}} : TRUE)

\* norm.cdf(x)
Cdf(a) ==
    CHOOSE v \in {IF x >= 0 THEN CdfUpper(x) ELSE SC - CdfUpper(0 - x) : x \in {a}} : TRUE

\* ---------------------------------------------------------- app.py: pricing

\* x <= 0 on floats
Le0(x) == x # NaN /\ x <= 0

\* what calculate_greeks returns: None, {'error': ...}, or the six rounded
\* fields (all NaN when an input that passed the guard is NaN)
Greeks(kind, price, delta, gamma, theta, vega, rho) ==
    [kind |-> kind, price |-> price, delta |-> delta, gamma |-> gamma,
     theta |-> theta, vega |-> vega, rho |-> rho]

NoneResult == Greeks("None", 0, 0, 0, 0, 0, 0)
ErrorResult == Greeks("error", 0, 0, 0, 0, 0, 0)
NaNResult == Greeks("priced", NaN, NaN, NaN, NaN, NaN, NaN)

\* the formulas of a put with the strike left undiscounted in the price
PriceGreeksUndiscounted(S, K, T, r, sigma, option_type, sqrtT, KD, n1, N1, N2) ==
    LET decay == 0 - Div(Mul(Mul(S, n1), sigma), 2 * sqrtT)
    IN  Greeks("priced",
               Round(IF option_type = "call"
                     THEN Mul(S, N1) - Mul(KD, N2)
                     ELSE Mul(K, SC - N2) - Mul(S, SC - N1), 100),
               Round(IF option_type = "call" THEN N1 ELSE N1 - SC, 100),
               Round(Div(n1, Mul(S, Mul(sigma, sqrtT))), 1),
               Round(Over(IF option_type = "call"
                          THEN decay - Mul(Mul(r, KD), N2)
                          ELSE decay + Mul(Mul(r, KD), SC - N2), 365), 100),
               Round(Over(Mul(Mul(S, n1), sqrtT), 100), 100),
               Round(Over(IF option_type = "call"
                          THEN Mul(Mul(T, KD), N2)
                          ELSE 0 - Mul(Mul(T, KD), SC - N2), 100), 100))

\* price, delta, theta, gamma, vega, rho and their rounding, given
\* sqrtT = np.sqrt(T), KD = K * np.exp(-r * T), n1 = norm.pdf(d1),
\* N1 = norm.cdf(d1), N2 = norm.cdf(d2); norm.cdf(-d) is 1 - norm.cdf(d)
PriceGreeks(S, K, T, r, sigma, option_type, sqrtT, KD, n1, N1, N2) ==
    LET decay == 0 - Div(Mul(Mul(S, n1), sigma), 2 * sqrtT)
    IN  Greeks("priced",
               Round(IF option_type = "call"
                     THEN Mul(S, N1) - Mul(KD, N2)
                     ELSE Mul(KD, SC - N2) - Mul(S, SC - N1), 100),
               Round(IF option_type = "call" THEN N1 ELSE N1 - SC, 100),
               Round(Div(n1, Mul(S, Mul(sigma, sqrtT))), 1),
               Round(Over(IF option_type = "call"
                          THEN decay - Mul(Mul(r, KD), N2)
                          ELSE decay + Mul(Mul(r, KD), SC - N2), 365), 100),
               Round(Over(Mul(Mul(S, n1), sqrtT), 100), 100),
               Round(Over(IF option_type = "call"
                          THEN Mul(Mul(T, KD), N2)
                          ELSE 0 - Mul(Mul(T, KD), SC - N2), 100), 100))

\* the body of the try block from d1 on
PriceAt(S, K, T, r, sigma, option_type, sqrtT, d1) ==
    CHOOSE g \in {PriceGreeks(S, K, T, r, sigma, option_type, sqrtT, KD, n1, N1, N2) :
                    KD \in {Mul(K, Exp(0 - Mul(r, T)))},
                    n1 \in {Pdf(d1)},
                    N1 \in {Cdf(d1)},
                    N2 \in {Cdf(d1 - Mul(sigma, sqrtT))}} : TRUE

\* d1 = (np.log(S / K) + (r + 0.5 * sigma**2) * T) / (sigma * np.sqrt(T))
D1(S, K, T, r, sigma, sqrtT) ==
    Div(Ln(Div(S, K)) + Mul(r + Mul(sigma, sigma) \div 2, T), Mul(sigma, sqrtT))

\* the body of the try block of calculate_greeks on finite inputs
BlackScholes(S, K, T, r, sigma, option_type) ==
    CHOOSE g \in
        {CHOOSE h \in {PriceAt(S, K, T, r, sigma, option_type, sqrtT, d1) :
                        d1 \in {D1(S, K, T, r, sigma, sqrtT)}} : TRUE :
            sqrtT \in {Sqrt(T)}} : TRUE

\* calculate_greeks on evaluated arguments: None when T, sigma, S or K is
\* <= 0 (a NaN passes every test); sigma**2 raises OverflowError for a huge
\* sigma, which the except clause turns into {'error': ...}; a NaN input makes
\* every field NaN.
GreeksOf(S, K, T, r, sigma, option_type) ==
    IF Le0(T) \/ Le0(sigma) \/ Le0(S) \/ Le0(K) THEN NoneResult
    ELSE IF sigma = Huge THEN ErrorResult
    ELSE IF NaN \in {S, K, T, r, sigma} THEN NaNResult
    ELSE BlackScholes(S, K, T, r, sigma, option_type)

\* calculate_greeks
calculate_greeks(S, K, T, r, sigma, option_type) ==
    CHOOSE g \in {GreeksOf(s, k, t, rr, sg, option_type) :
                    s \in {S}, k \in {K}, t \in {T}, rr \in {r}, sg \in {sigma}} : TRUE

\* the number of spots np.linspace samples
CurvePoints == 80

\* np.linspace(S * 0.70, S * 1.30, 80)[i - 1]
Linspace(S, i) ==
    IF S = NaN THEN NaN
    ELSE LET lo == Mul(S, 700000)
             d  == Mul(S, 1300000) - lo
             n  == CurvePoints - 1
         IN  lo + Sgn(d) * ((i - 1) * (Abs(d) \div n) + ((i - 1) * (Abs(d) % n)) \div n)

\* max(T - days_held / 365, 0.001); max() keeps a NaN first argument
TRemaining(T, days_held) ==
    IF T = NaN THEN NaN ELSE Max(T - (days_held * SC) \div 365, 1000)

\* the point build_pnl_curve appends for a sampled spot: 'price' is
\* round(target, 2), 'pnl' is round((g['price'] - premium_paid) * 100, 2), in
\* cents
CurvePoint(target, g, premium_paid) ==
    IF g.price = NaN THEN [price |-> NaN, pnl |-> NaN]
    ELSE [price |-> Round(target, 10000),
          pnl   |-> Round(g.price - premium_paid, 100) \div 100]

\* what one pass of the loop of build_pnl_curve appends for spot target: a
\* point when g is a dict with a 'price'
Appended(target, K, T_remaining, r, sigma, option_type, premium_paid) ==
    CHOOSE c \in
        {IF g.kind = "priced" THEN <<CurvePoint(target, g, premium_paid)>> ELSE <<>> :
            g \in {calculate_greeks(target, K, T_remaining, r, sigma, option_type)}} : TRUE

\* the loop of build_pnl_curve from the i-th sampled spot on, at time to
\* expiry T_remaining
RECURSIVE PnlCurveFrom(_, _, _, _, _, _, _, _)
PnlCurveFrom(i, S, K, T_remaining, r, sigma, option_type, premium_paid) ==
    IF i > CurvePoints THEN <<>>
    ELSE (CHOOSE c \in
            {Appended(target, K, T_remaining, r, sigma, option_type, premium_paid) :
                target \in {Linspace(S, i)}} : TRUE)
         \o PnlCurveFrom(i + 1, S, K, T_remaining, r, sigma, option_type, premium_paid)

\* the curve of build_pnl_curve at time to expiry T_remaining
PnlCurveAt(S, K, T_remaining, r, sigma, option_type, premium_paid) ==
    CHOOSE c \in {PnlCurveFrom(1, s, k, t, rr, sg, option_type, pr) :
                    s \in {S}, k \in {K}, t \in {T_remaining}, rr \in {r},
                    sg \in {sigma}, pr \in {premium_paid}} : TRUE

\* build_pnl_curve
build_pnl_curve(S, K, T, r, sigma, option_type, premium_paid, days_held) ==
    PnlCurveAt(S, K, TRemaining(T, days_held), r, sigma, option_type, premium_paid)

\* the holding periods of /api/simulate
Schedule == <<0, 5, 10, 15, 20>>

\* simulate with every scenario priced at the day of the request
simulate_today(S, K, T, r, sigma, option_type, premium) ==
    [i \in 1 .. Len(Schedule) |->
        [days  |-> Schedule[i],
         curve |-> build_pnl_curve(S, K, T, r, sigma, option_type, premium, 0)]]

\* the scenarios of simulate
simulate(S, K, T, r, sigma, option_type, premium) ==
    [i \in 1 .. Len(Schedule) |->
        [days  |-> Schedule[i],
         curve |-> build_pnl_curve(S, K, T, r, sigma, option_type, premium,
                                   Schedule[i])]]

\* float(data.get('dte')) / 365
YearsOf(dte) == (dte * SC) \div 365

\* the floats a request can carry
SpotValues == {NaN, 0 - SC, SC, 100 * SC}
StrikeValues == {0, 100 * SC}
DteValues == {0, 7}
SigmaValues == {0, 300000, Huge}
RateValues == {45000}
PremiumValues == {2500000}
OptionTypes == {"call", "put"}
DaysHeld == {0, 10}

\* float(data.get('theta_alert', 50)), in cents
ThetaAlert == 5000

\* None where a float is expected
NoneF == NaN - 1

\* what fetch_live_data returns: None with an error text (no price history,
\* yfinance missing, any exception), the closing price alone when the option
\* chain gave nothing, or price, impliedVolatility and lastPrice of the
\* contract, any of which the provider may report as 0.0
NoLive == [found |-> FALSE, stock_price |-> NoneF, iv |-> NoneF, mark |-> NoneF]
LiveData ==
    { NoLive,
      [found |-> TRUE, stock_price |-> 101 * SC, iv |-> NoneF, mark |-> NoneF],
      [found |-> TRUE, stock_price |-> 101 * SC, iv |-> 250000, mark |-> 3 * SC],
      [found |-> TRUE, stock_price |-> 101 * SC, iv |-> 0, mark |-> 0] }

\* the requests with an expiration followed (a date, or a string strptime
\* rejects): every fetch result for a date, a failed and a price-only fetch
\* for a malformed one
LiveRequests ==
    {<<"date", l>> : l \in LiveData}
        \cup {<<"malformed", l>> : l \in {l \in LiveData : l.iv = NoneF}}

\* the inputs the handler has not chosen yet
NoInputs == [S |-> NoneF, sigma |-> NoneF, premium |-> NoneF, T |-> NoneF]

\* bool(x) of a float or None: None and 0.0 are falsy, NaN is truthy
Truthy(x) == x # NoneF /\ x # 0

\* Live with every value the fetch supplied taken as present, 0.0 included
LiveSupplied(live, field, manual) ==
    IF live.found /\ live[field] # NoneF THEN live[field] ELSE manual

\* float(live_data[field]) if live_data and live_data.get(field) else the
\* manual value of the request
Live(live, field, manual) ==
    IF live.found /\ Truthy(live[field]) THEN live[field] ELSE manual

\* T of a request with an expiration dte days ahead:
\* max((exp_date - now).days / 365, 0.001), or 30 / 365 when strptime raises
ExpirationT(expiration, T) ==
    IF expiration = "malformed" THEN YearsOf(30) ELSE Max(T, 1000)

\* a pricing request before any function is applied to it
PricingInputs ==
    { [fn |-> "input", S |-> S, K |-> K, T |-> YearsOf(dte), r |-> r, sigma |-> sigma,
       option_type |-> ot, premium |-> pr, days_held |-> 0,
       greeks |-> NoneResult, curve |-> <<>>, scenarios |-> <<>>,
       status |-> 0, daily_theta |-> 0, theta_alert |-> FALSE,
       live |-> NoLive, used |-> NoInputs] :
      S \in SpotValues, K \in StrikeValues, dte \in DteValues, r \in RateValues,
      sigma \in SigmaValues, ot \in OptionTypes, pr \in PremiumValues }

\* a call of calculate_greeks on the inputs
CalculateGreeks ==
    /\ calc.fn = "input"
    /\ calc' = [calc EXCEPT !.fn = "calculate_greeks",
                    !.greeks = calculate_greeks(calc.S, calc.K, calc.T, calc.r,
                                                calc.sigma, calc.option_type)]
    /\ UNCHANGED <<now, users, logged_in, session, resp, threads,
                   webhook_secret, accounts, scan_cache, scan_log>>

\* a call of build_pnl_curve on the inputs
BuildPnlCurve(d) ==
    /\ calc.fn = "input"
    /\ calc' = [calc EXCEPT !.fn = "build_pnl_curve", !.days_held = d,
                    !.curve = build_pnl_curve(calc.S, calc.K, calc.T, calc.r, calc.sigma,
                                              calc.option_type, calc.premium, d)]
    /\ UNCHANGED <<now, users, logged_in, session, resp, threads,
                   webhook_secret, accounts, scan_cache, scan_log>>

\* the body of the /api/simulate handler
Simulate ==
    /\ calc.fn = "input"
    /\ calc' = [calc EXCEPT !.fn = "simulate", !.status = 200,
                    !.scenarios = simulate(calc.S, calc.K, calc.T, calc.r, calc.sigma,
                                           calc.option_type, calc.premium)]
    /\ UNCHANGED <<now, users, logged_in, session, resp, threads,
                   webhook_secret, accounts, scan_cache, scan_log>>

\* the body of the /api/greeks handler on a request without expiration:
\* greeks_result['theta'] raises KeyError on the {'error': ...} result, which
\* is truthy, and the request ends as a 500
GreeksHandler(d) ==
    /\ calc.fn = "input"
    /\ LET g == calculate_greeks(calc.S, calc.K, calc.T, calc.r, calc.sigma,
                                 calc.option_type)
           c == build_pnl_curve(calc.S, calc.K, calc.T, calc.r, calc.sigma,
                                calc.option_type, calc.premium, d)
           daily_theta_d == IF g.kind = "None" THEN 0
                            ELSE IF g.theta = NaN THEN NaN
                            ELSE g.theta \div 100
       IN  IF g.kind = "error"
           THEN calc' = [calc EXCEPT !.fn = "greeks", !.days_held = d, !.status = 500]
           ELSE calc' = [calc EXCEPT !.fn = "greeks", !.days_held = d, !.status = 200,
                             !.greeks = g, !.curve = c,
                             !.daily_theta = daily_theta_d,
                             !.theta_alert = (daily_theta_d # NaN
                                                /\ Abs(daily_theta_d) > ThetaAlert)]
    /\ UNCHANGED <<now, users, logged_in, session, resp, threads,
                   webhook_secret, accounts, scan_cache, scan_log>>

\* the body of the /api/greeks handler on a request with an expiration:
\* fetch_live_data is called, each of spot, volatility and premium is the
\* live value or the manual one, and the two functions run on the choice
GreeksLive(expiration, live) ==
    /\ calc.fn = "input"
    /\ LET S       == Live(live, "stock_price", calc.S)
           sigma   == Live(live, "iv", calc.sigma)
           premium == Live(live, "mark", calc.premium)
           T       == ExpirationT(expiration, calc.T)
           g == calculate_greeks(S, calc.K, T, calc.r, sigma, calc.option_type)
           c == build_pnl_curve(S, calc.K, T, calc.r, sigma, calc.option_type,
                                premium, 0)
           daily_theta_d == IF g.kind = "None" THEN 0
                            ELSE IF g.theta = NaN THEN NaN
                            ELSE g.theta \div 100
       IN  calc' = [calc EXCEPT
                        !.fn = "greeks_expiration",
                        !.live = live,
                        !.used = [S |-> S, sigma |-> sigma, premium |-> premium, T |-> T],
                        !.greeks = g, !.curve = c,
                        !.status = IF g.kind = "error" THEN 500 ELSE 200,
                        !.daily_theta = IF g.kind = "error" THEN 0 ELSE daily_theta_d,
                        !.theta_alert = (g.kind # "error" /\ daily_theta_d # NaN
                                            /\ Abs(daily_theta_d) > ThetaAlert)]
    /\ UNCHANGED <<now, users, logged_in, session, resp, threads,
                   webhook_secret, accounts, scan_cache, scan_log>>

\* The pricing functions and handlers on one request at a time.
InitPricing ==
    /\ now = 0
    /\ users = <<>>
    /\ logged_in = {}
    /\ session = EmptySession
    /\ resp = Response("start", Anonymous, 0, FALSE, NoneS)
    /\ threads = NoThreads
    /\ calc \in PricingInputs
    /\ webhook_secret = TRUE
    /\ accounts = <<>>
    /\ scan_cache = EmptyCache
    /\ scan_log = EmptyLog

NextPricing ==
    \/ CalculateGreeks
    \/ \E d \in DaysHeld : BuildPnlCurve(d)
    \/ Simulate
    \/ \E d \in DaysHeld : GreeksHandler(d)
    \/ \E q \in LiveRequests : GreeksLive(q[1], q[2])

SpecPricing == InitPricing /\ [][NextPricing]_vars

\* ------------------------------------------- auth.py: concurrent signups

\* the request bodies sent to /auth/signup
Emails ==
    { <<"a", "@", "x", ".", "i", "o">>,
      <<" ", "A", "@", "X", ".", "i", "o", " ">>,
      <<"b", "@", "x", ".", "i", "o">>,
      <<"a", "x", ".", "i", "o">> }
Usernames ==
    { <<"w", "o", "l", "f">>, <<" ", "w", "o", "l", "f">>,
      <<"W", "o", "l", "f">>, <<"f", "o", "x">>, <<"w", "o">> }
Passwords ==
    { <<"w", "o", "l", "f", "w", "o", "l", "1">>, <<"w", "o", "l", "f", "1">> }
SignupBodies ==
    [email : Emails, username : Usernames, password : Passwords]

\* most rows the users table is followed to
MaxUsers == 2

\* signup up to its db.session.add: the 400s of validation, the 409s of the
\* two duplicate queries, else the User object is built (reading the clock)
\* and the request stands before its commit
SignupCheck(t, form) ==
    /\ threads[t].pc = "idle"
    /\ IF ~Validates(form)
       THEN /\ resp' = Response("signup", Anonymous, 400, FALSE, NoneS)
            /\ UNCHANGED threads
       ELSE IF Duplicate(accounts, FormEmail(form), FormUsername(form))
       THEN /\ resp' = Response("signup", Anonymous, 409, FALSE, NoneS)
            /\ UNCHANGED threads
       ELSE /\ threads' = [threads EXCEPT ![t] =
                    [Idle EXCEPT !.pc = "signup_add",
                                 !.row = Identity(FormEmail(form), FormUsername(form))]]
            /\ UNCHANGED resp
    /\ UNCHANGED <<now, users, logged_in, session, calc,
                   webhook_secret, accounts, scan_cache, scan_log>>

\* the first db.session.commit() of signup and what follows it: the INSERT
\* either raises IntegrityError, which nothing catches (a 500, nothing
\* stored, nobody logged in), or stores the row, and the user is logged in
\* and answered 201
SignupCommit(t) ==
    /\ threads[t].pc = "signup_add"
    /\ threads' = [threads EXCEPT ![t] = Idle]
    /\ IF InsertRaises(accounts, threads[t].row)
       THEN /\ resp' = Response("signup", Anonymous, 500, FALSE, "IntegrityError")
            /\ UNCHANGED <<users, accounts, logged_in>>
       ELSE /\ NextId <= MaxUsers
            /\ users' = users @@ (NextId :> NewUser(now, now))
            /\ accounts' = accounts @@ (NextId :> threads[t].row)
            /\ logged_in' = logged_in \cup {NextId}
            /\ resp' = Response("signup", NextId, 201, TRUE, NoneS)
    /\ UNCHANGED <<now, session, calc, webhook_secret, scan_cache, scan_log>>

\* Signup requests served by two threads, on an empty users table.
InitSignup ==
    /\ now = 0
    /\ users = <<>>
    /\ logged_in = {}
    /\ session = EmptySession
    /\ resp = Response("start", Anonymous, 0, FALSE, NoneS)
    /\ threads = NoThreads
    /\ calc = NoCalc
    /\ webhook_secret = TRUE
    /\ accounts = <<>>
    /\ scan_cache = EmptyCache
    /\ scan_log = EmptyLog

NextSignup ==
    \/ \E t \in Threads, form \in SignupBodies : SignupCheck(t, form)
    \/ \E t \in Threads : SignupCommit(t)

SpecSignup == InitSignup /\ [][NextSignup]_vars

\* ------------------------------------------------- scanner.py: daily scan

\* what call_claude returns when it does not raise: a list of picks, which
\* differs from call to call, or an empty list
EmptyPicks == "[]"
Picks == {"picks_a", "picks_b", EmptyPicks}

\* most successful AI calls followed
MaxCalls == 3

\* date.today().isoformat()
Today == DateOf(now)

\* _scan_cache['date'] == today and _scan_cache['results'] (an empty list and
\* None are falsy)
CacheHit(cache, today) ==
    cache.date = today /\ cache.results \notin {NoneS, EmptyPicks}

\* daily_scan up to call_claude: flask_login's login_required (401 for
\* /scanner/ paths), then the cached result is answered when the cache holds
\* one for today, else the request goes on to build its prompt
ScanLookup(t, c) ==
    /\ threads[t].pc = "idle"
    /\ c \in Clients
    /\ IF c = Anonymous
       THEN /\ resp' = Response("daily_scan", c, 401, FALSE, "login")
            /\ UNCHANGED <<threads, scan_log>>
       ELSE IF CacheHit(scan_cache, Today)
       THEN /\ resp' = Response("daily_scan", c, 200, TRUE, scan_cache.results)
            /\ scan_log' = [scan_log EXCEPT !.served =
                                @ \cup {[date |-> Today, results |-> scan_cache.results]}]
            /\ UNCHANGED threads
       ELSE /\ threads' = [threads EXCEPT ![t] =
                    [Idle EXCEPT !.pc = "scan_call", !.uid = c, !.row = Today]]
            /\ UNCHANGED <<resp, scan_log>>
    /\ UNCHANGED <<now, users, logged_in, session, calc,
                   webhook_secret, accounts, scan_cache>>

\* daily_scan from call_claude on: the call raises and the request is
\* answered 500, or it returns picks, which are stored in _scan_cache under
\* the date read at the start of the request and answered
ScanCall(t, ok, picks) ==
    /\ threads[t].pc = "scan_call"
    /\ threads' = [threads EXCEPT ![t] = Idle]
    /\ IF ~ok
       THEN /\ resp' = Response("daily_scan", threads[t].uid, 500, TRUE, NoneS)
            /\ UNCHANGED <<scan_cache, scan_log>>
       ELSE /\ Len(scan_log.calls) < MaxCalls
            /\ scan_cache' = [date |-> threads[t].row, results |-> picks]
            /\ scan_log' = [calls  |-> Append(scan_log.calls, threads[t].row),
                            served |-> scan_log.served
                                        \cup {[date |-> threads[t].row, results |-> picks]}]
            /\ resp' = Response("daily_scan", threads[t].uid, 200, TRUE, picks)
    /\ UNCHANGED <<now, users, logged_in, session, calc, webhook_secret, accounts>>

\* /scanner/daily served by two threads to one logged-in user, over the day
\* rollovers of the clock.
InitScan ==
    /\ now = 0
    /\ users = (1 :> NewUser(0, 0))
    /\ logged_in = {1}
    /\ session = EmptySession
    /\ resp = Response("start", Anonymous, 0, FALSE, NoneS)
    /\ threads = NoThreads
    /\ calc = NoCalc
    /\ webhook_secret = TRUE
    /\ accounts = (1 :> SoloIdentity)
    /\ scan_cache = EmptyCache
    /\ scan_log = EmptyLog

NextScan ==
    \/ Tick
    \/ \E t \in Threads, c \in SoloIds \cup {Anonymous} : ScanLookup(t, c)
    \/ \E t \in Threads, ok \in BOOLEAN, picks \in Picks : ScanCall(t, ok, picks)

SpecScan == InitScan /\ [][NextScan]_vars

\* ------------------------------------------------------------------ claims

PaidPlans == {"basic", "elite"}

\* the fields of a row other than the usage counters
OtherFields == {"plan", "trial_start", "trial_end", "subscription_start",
                "subscription_end", "stripe_customer_id", "stripe_subscription_id"}

\* C1: a subscribed user whose stored plan is basic or elite has that plan as
\* effective plan, and a request of theirs through analysis_gate reaches the
\* handler.
C1_PaidPlanHasAccess ==
    \A u \in DOMAIN users :
        (/\ users[u].plan \in PaidPlans
         /\ users[u].stripe_subscription_id # NoneS
         /\ resp.op \in GatedRoutes
         /\ resp.uid = u)
            => /\ effective_plan(users[u], now) = users[u].plan
               /\ resp.invoked

\* C2: for a trial user whose trial_end is earlier than now the effective plan
\* is 'expired', analysis_gate answers 403 without invoking the handler, and
\* can_run_analysis returns (False, reason) and leaves the row alone.
C2_ExpiredTrialDenied ==
    [][\A u \in DOMAIN users :
        (users[u].plan = "trial" /\ users[u].trial_end < now)
            => /\ effective_plan(users[u], now) = "expired"
               /\ \A route \in GatedRoutes :
                    ApiRequest(u, route) => (resp'.status = 403 /\ ~resp'.invoked)
               /\ CanRunAnalysis(u)
                    => (~resp'.invoked /\ resp'.detail # NoneS /\ users' = users)]_vars

\* C2 witness: a gated request of a trial user one tick past trial_end got 403.
C2_Witness ==
    /\ resp.op \in GatedRoutes
    /\ resp.uid \in DOMAIN users
    /\ resp.status = 403
    /\ ~resp.invoked
    /\ users[resp.uid].plan = "trial"
    /\ users[resp.uid].trial_end = now - 1

\* C3: a gated request that analysis_gate lets through leaves analyses_today
\* one higher than before, or at 1 when the calendar day rolled over.
C3_GatedRequestRecordsUsage ==
    [][\A c \in DOMAIN users, route \in GatedRoutes :
        (ApiRequest(c, route) /\ resp'.invoked)
            => users'[c].analyses_today =
                 (IF users[c].last_analysis_date # DateOf(now)
                  THEN 1 ELSE users[c].analyses_today + 1)]_vars

\* C4: an active trial user whose analyses_today equals the daily limit is
\* denied by can_run_analysis when last_analysis_date is today and allowed
\* when it is an earlier day.
C4_QuotaResetsOnNewDay ==
    [][\A u \in DOMAIN users :
        (/\ CanRunAnalysis(u)
         /\ effective_plan(users[u], now) = "trial"
         /\ users[u].analyses_today = daily_analysis_limit(users[u], now))
            => (resp'.invoked <=> users[u].last_analysis_date # DateOf(now))]_vars

\* C5: after either webhook handler has applied a 'subscription deleted' event
\* to the subscribed user of the event's customer, that user's effective plan
\* is 'expired', and an effective plan of 'expired' stays so while only the
\* clock advances.
C5_CancelledIsExpired ==
    [][/\ \A e \in Events(UserIds, Customers), u \in DOMAIN users :
            (/\ e.type = "customer.subscription.deleted"
             /\ e.customer # NoneS
             /\ users[u].stripe_customer_id = e.customer
             /\ users[u].stripe_subscription_id # NoneS
             /\ (StripeWebhook(TRUE, e) \/ PaymentsWebhook(TRUE, e)))
                => effective_plan(users'[u], now') = "expired"
       /\ \A u \in DOMAIN users :
            (Tick /\ effective_plan(users[u], now) = "expired")
                => effective_plan(users'[u], now') = "expired"]_vars

\* C6: a step changes a user's stored plan only if it is a verified billing
\* event or the return from a checkout session the provider knows, and
\* changes it to a paid plan only if that event is a completed checkout for
\* that user.
C6_PlanChangesOnlyByBilling ==
    [][\A u \in DOMAIN users :
        users'[u].plan # users[u].plan
            => \/ \E e \in Events(UserIds, Customers) :
                    /\ StripeWebhook(TRUE, e) \/ PaymentsWebhook(TRUE, e)
                    /\ users'[u].plan \in PaidPlans
                         => (e.type = "checkout.session.completed" /\ e.user_id = u)
               \/ \E co \in Checkouts : PaymentsSuccess(u, co)]_vars

\* C7: signup stores plan 'trial' and a trial_end exactly 20 days after
\* trial_start, and right after it the effective plan is 'trial' and
\* analysis_gate lets the user through.
C7_SignupStartsExactTrial ==
    [][\A u \in UserIds :
        (Signup(UserIds, "valid") /\ u \notin DOMAIN users /\ u \in DOMAIN users')
            => /\ users'[u].plan = "trial"
               /\ users'[u].trial_end - users'[u].trial_start = TrialLen
               /\ effective_plan(users'[u], now') = "trial"]_vars

\* rank of the plans under trial < basic < elite
ClaimRank(p) == CASE p = "trial" -> 1 [] p = "basic" -> 2 [] p = "elite" -> 3

\* C8: behind _require_plan(m) the handler is invoked for an effective plan p
\* of trial, basic or elite iff p ranks at least m under trial < basic <
\* elite, and never for 'expired'.
C8_MinimumPlan ==
    [][\A c \in UserIds, m \in MinPlans :
        PageRequest(c, m)
            => LET p == _get_user_plan(session, now)
               IN  /\ p \in {"trial", "basic", "elite"}
                        => (resp'.invoked <=> ClaimRank(p) >= ClaimRank(m))
                   /\ p = "expired" => ~resp'.invoked]_vars

\* C8 witness: a basic session was let through basic_required.
C8_Witness ==
    /\ resp.op = "basic_required"
    /\ resp.invoked
    /\ session.logged_in
    /\ session.plan = "basic"

\* C9: record_analysis leaves last_analysis_date at today and analyses_today
\* at 1 when the day rolled over, else one above its old value, and changes
\* no other field of the row.
C9_RecordAnalysis ==
    [][\A u \in DOMAIN users :
        RecordAnalysis(u)
            => /\ users'[u].last_analysis_date = DateOf(now)
               /\ users'[u].analyses_today =
                    (IF users[u].last_analysis_date # DateOf(now)
                     THEN 1 ELSE users[u].analyses_today + 1)
               /\ \A f \in OtherFields : users'[u][f] = users[u][f]]_vars

\* C9 witness: record_analysis ran on a day later than any stored date and
\* left the counter at 1.
C9_Witness ==
    /\ resp.op = "record_analysis"
    /\ users[resp.uid].analyses_today = 1
    /\ users[resp.uid].last_analysis_date = DateOf(now)
    /\ DateOf(now) > DateOf(TrialLen - 1)

\* C10: a trial record without trial_end is neither derived as 'expired' nor
\* as a trial that is let through, by User.effective_plan and by
\* _get_user_plan.
C10_MissingTrialEndIsError ==
    [][/\ \A u \in DOMAIN users :
            (users[u].plan = "trial" /\ users[u].trial_end = NoneT)
                => effective_plan(users[u], now) \notin {"trial", "expired"}
       /\ (/\ TrialPage
           /\ session.logged_in
           /\ session.plan \in {NoneS, "trial"}
           /\ session.trial_end = NoneT)
            => (_get_user_plan(session, now) \notin {"trial", "expired"}
                /\ ~resp'.invoked)]_vars

\* C11: two concurrent requests of one entitled user race on analyses_today:
\* when both have run their check on the same pre-increment value of the
\* counter, before either has recorded, and that value is the 0 of a day on
\* which nothing was analysed yet, both decide 'still under quota' (and the
\* two records that follow admit one request over the limit).
C11_RaceAdmitsOverLimit ==
    \A t1, t2 \in Threads :
        (/\ t1 # t2
         /\ threads[t1].pc = "checked" /\ threads[t2].pc = "checked"
         /\ threads[t1].uid = threads[t2].uid
         /\ has_active_subscription(users[threads[t1].uid], now) = "True"
         /\ users[threads[t1].uid].last_analysis_date = DateOf(now)
         /\ users[threads[t1].uid].analyses_today = 0
         /\ threads[t1].allowed # NoneS /\ threads[t2].allowed # NoneS
         /\ Attr(t1).analyses_today = 0 /\ Attr(t2).analyses_today = 0)
        => (threads[t1].allowed = "True" /\ threads[t2].allowed = "True")


\* the plan vocabulary of the entitlement rules
PlanVocabulary == {"trial", "basic", "elite", "pro", "expired"}

\* C12: after any sequence of signups, checkouts, payment-success redirects
\* and billing events, every stored plan is one of trial, basic, elite/pro,
\* expired.
C12_StoredPlanInVocabulary ==
    \A u \in DOMAIN users : users[u].plan \in PlanVocabulary

\* the events that designate their user by the billing customer id
CustomerEvents ==
    {e \in Events(UserIds, Customers) : e.type # "checkout.session.completed"}

\* C13: a billing event changes only the user it designates: when a handler
\* applies an event carrying customer id c, the only rows that change are rows
\* whose stripe_customer_id equals c; an event whose customer id is absent or
\* matches no user changes no row, rows without a billing customer included.
C13_BillingEventFrame ==
    [][\A e \in CustomerEvents, u \in DOMAIN users :
            ((StripeWebhook(TRUE, e) \/ PaymentsWebhook(TRUE, e))
                /\ users'[u] # users[u])
                => (e.customer # NoneS /\ users[u].stripe_customer_id = e.customer)]_vars

\* C14: when a login or an access check observes that a trial user's window
\* is over (plan = trial and now > trial_end), the stored plan is written back
\* to 'expired'.
C14_ExpiryWrittenBack ==
    [][\A u \in DOMAIN users :
            (/\ users[u].plan = "trial"
             /\ users[u].trial_end # NoneT
             /\ now > users[u].trial_end
             /\ (Login(u, TRUE) \/ \E route \in GatedRoutes : ApiRequest(u, route)))
                => users'[u].plan = "expired"]_vars

\* C15: effective_plan is a pure derivation: evaluating it changes no field
\* of any user record, and the result it returns is the result of a second
\* evaluation made right after it, with no state change and the same now.
C15_EffectivePlanPure ==
    [][\A u \in DOMAIN users :
            EffectivePlan(u)
                => /\ users' = users
                   /\ now' = now
                   /\ resp'.detail = effective_plan(users'[u], now')]_vars

\* an evaluation returned 'expired' for a row whose stored plan is 'trial'
C15_Witness ==
    \E u \in DOMAIN users :
        /\ resp.op = "effective_plan" /\ resp.uid = u
        /\ resp.detail = "expired"
        /\ users[u].plan = "trial"

\* x > 0 on floats
Gt0(x) == x # NaN /\ x > 0

\* C16: calculate_greeks returns None whenever any of S, K, T, sigma is <= 0,
\* and returns a priced result with the six fields only when all four are
\* > 0.
C16_UndefinedOutsideDomain ==
    calc.fn = "calculate_greeks"
        => /\ (Le0(calc.S) \/ Le0(calc.K) \/ Le0(calc.T) \/ Le0(calc.sigma))
                => calc.greeks = NoneResult
           /\ calc.greeks.kind = "priced"
                => (Gt0(calc.S) /\ Gt0(calc.K) /\ Gt0(calc.T) /\ Gt0(calc.sigma))

\* C17: for every finite spot, small ones included, build_pnl_curve returns
\* at most 80 points whose 'price' field is strictly increasing from one point
\* to the next, one point for every sampled spot at which pricing is defined
\* and none for the others.
C17_CurveStrictlyIncreasing ==
    (calc.fn = "build_pnl_curve" /\ calc.S # NaN)
        => /\ Len(calc.curve) <= CurvePoints
           /\ \A i \in 1 .. Len(calc.curve) - 1 :
                /\ calc.curve[i].price # NaN
                /\ calc.curve[i + 1].price # NaN
                /\ calc.curve[i].price < calc.curve[i + 1].price
           /\ Len(calc.curve) =
                Cardinality({i \in 1 .. CurvePoints :
                    calculate_greeks(Linspace(calc.S, i), calc.K,
                                     TRemaining(calc.T, calc.days_held), calc.r,
                                     calc.sigma, calc.option_type).kind = "priced"})

\* C18: when calculate_greeks yields None or an {'error': ...} result, the
\* /api/greeks handler still returns a normal response, with the daily theta
\* taken as 0.
C18_FaultIsNotACrash ==
    (calc.fn = "greeks"
        /\ calculate_greeks(calc.S, calc.K, calc.T, calc.r, calc.sigma,
                            calc.option_type).kind \in {"None", "error"})
        => (calc.status = 200 /\ calc.daily_theta = 0)

\* C19: the result of /api/simulate is five scenarios with days 0, 5, 10, 15,
\* 20 in that order, and the curve of each is the curve of the single-curve
\* loop on the same inputs priced at T_remaining = max(T - days / 365, 0.001).
C19_FiveIndependentScenarios ==
    calc.fn = "simulate"
        => /\ Len(calc.scenarios) = 5
           /\ \A i \in 1 .. 5 :
                /\ calc.scenarios[i].days = 5 * (i - 1)
                /\ calc.scenarios[i].curve =
                        PnlCurveAt(calc.S, calc.K,
                                   Max(calc.T - (5 * (i - 1) * SC) \div 365, 1000),
                                   calc.r, calc.sigma, calc.option_type, calc.premium)

\* a simulation of a position with time value: the curve of the last
\* scenario differs from the curve of the first
C19_Witness ==
    /\ calc.fn = "simulate"
    /\ Len(calc.scenarios[1].curve) = CurvePoints
    /\ calc.scenarios[5].curve # calc.scenarios[1].curve
    /\ calc.T - (20 * SC) \div 365 < 1000

C21_ExpiryBoundary ==
    /\ \A u \in DOMAIN users :
        (users[u].plan = "trial" /\ users[u].trial_end # NoneT)
            => (effective_plan(users[u], now) = "expired" <=> now > users[u].trial_end)
    /\ (session.logged_in /\ session.plan = "trial" /\ session.trial_end # NoneT)
            => (_get_user_plan(session, now) = "expired" <=> now > session.trial_end)

\* C22: a logged-in user whose stored plan is elite reaches the pages behind
\* elite_required, and a logged-in basic user the page behind basic_required:
\* the wrapped handler is invoked, the request is not redirected.
C22_LoggedInPlanReachesPage ==
    [][\A c \in DOMAIN users, m \in MinPlans :
        (PageRequest(c, m) /\ c \in logged_in /\ users[c].plan = m)
            => (resp'.invoked /\ resp'.status = 200)]_vars

\* C23: for a logged-in user, at any instant, the plan _get_user_plan derives
\* from the session equals User.effective_plan of the stored record, and the
\* page gate and the API gate take the same allow/deny decision.
C23_DerivationsAgree ==
    \A u \in logged_in :
        /\ _get_user_plan(session, now) = effective_plan(users[u], now)
        /\ (login_required(session, now) = "handler") <=> (analysis_gate(u, now) = 200)

\* C24: a denial by analysis_gate is an ordinary response without effect: 401
\* with action 'login' for an unauthenticated caller, 403 with action
\* 'upgrade' for a user whose effective plan is 'expired', each with a
\* non-empty reason; the handler is not invoked and no user field changes.
C24_DenialIsOrdinaryResponse ==
    [][\A c \in DOMAIN users \cup {Anonymous}, route \in GatedRoutes :
        ApiRequest(c, route)
            => /\ c = Anonymous
                    => /\ resp'.status = 401 /\ resp'.detail = "login"
                       /\ resp'.error # "" /\ ~resp'.invoked /\ users' = users
               /\ (c # Anonymous /\ effective_plan(users[c], now) = "expired")
                    => /\ resp'.status = 403 /\ resp'.detail = "upgrade"
                       /\ resp'.error # "" /\ ~resp'.invoked /\ users' = users]_vars

\* C24 witness: a user on a stored plan other than 'trial' was answered 403
\* with action 'upgrade' and the reason text.
C24_Witness ==
    /\ resp.op \in GatedRoutes
    /\ resp.uid \in DOMAIN users
    /\ users[resp.uid].plan # "trial"
    /\ resp.status = 403
    /\ resp.detail = "upgrade"
    /\ resp.error = gate_error(403)
    /\ ~resp.invoked

\* C25: a webhook request whose signature does not verify is answered 400 and
\* changes no user record, in app.stripe_webhook and in payments.webhook,
\* whether or not the webhook secret is configured.
C25_UnverifiedWebhookRejected ==
    [][\A e \in Events(UserIds, Customers) :
        (StripeWebhook(FALSE, e) \/ PaymentsWebhook(FALSE, e))
            => (resp'.status = 400 /\ users' = users)]_vars

\* C26: under any interleaving of signup requests no two stored users share an
\* email (lower-cased and trimmed) or a username, and a well-formed signup
\* that collides with a stored email or username is answered 409, creates no
\* user and logs nobody in.
C26_UniqueIdentities ==
    /\ [](\A a, b \in DOMAIN accounts :
            a # b => /\ Lower(Strip(accounts[a].email)) # Lower(Strip(accounts[b].email))
                     /\ accounts[a].username # accounts[b].username)
    /\ [][(\A t \in Threads, form \in SignupBodies :
                (/\ SignupCheck(t, form)
                 /\ Validates(form)
                 /\ Duplicate(accounts, FormEmail(form), FormUsername(form)))
                    => (resp'.status = 409 /\ users' = users /\ accounts' = accounts
                        /\ logged_in' = logged_in))
          /\ (\A t \in Threads :
                (SignupCommit(t) /\ InsertRaises(accounts, threads[t].row))
                    => (resp'.status = 409 /\ users' = users /\ accounts' = accounts
                        /\ logged_in' = logged_in))]_vars

\* the number of successful AI calls made for date d
RECURSIVE CallsFor(_, _)
CallsFor(calls, d) ==
    IF calls = <<>> THEN 0
    ELSE (IF Head(calls) = d THEN 1 ELSE 0) + CallsFor(Tail(calls), d)

\* C27: under any interleaving of /scanner/daily requests and day rollovers
\* the AI is successfully called at most once for a date, all responses for a
\* date carry the same result set, and no result is stored under an earlier
\* date once the date has rolled over.
C27_ScanCachedPerDate ==
    /\ [](\A d \in 0 .. DateOf(MaxTime) : CallsFor(scan_log.calls, d) <= 1)
    /\ [](\A x, y \in scan_log.served : x.date = y.date => x.results = y.results)
    /\ [][scan_cache' # scan_cache => scan_cache'.date = DateOf(now')]_vars

\* C28 as stated: in /api/greeks each of spot price, implied volatility and
\* premium is the live value whenever the fetch succeeded and supplied that
\* value, and the manual value otherwise.
C28_LiveValueWhenSupplied ==
    calc.fn = "greeks_expiration"
        => /\ calc.used.S = LiveSupplied(calc.live, "stock_price", calc.S)
           /\ calc.used.sigma = LiveSupplied(calc.live, "iv", calc.sigma)
           /\ calc.used.premium = LiveSupplied(calc.live, "mark", calc.premium)

\* the value the fetch supplied for a field, when it supplied one other than 0
SuppliedNonZero(live, field) ==
    live.found /\ live[field] # NoneF /\ live[field] # 0

\* C28: in /api/greeks each of spot price, implied volatility and premium is
\* the live value when the fetch succeeded and supplied a value other than
\* zero, and the manual value otherwise; after a failed fetch
\* calculate_greeks and build_pnl_curve have run on the manual inputs.
C28_LiveOrManualInputs ==
    calc.fn = "greeks_expiration"
        => /\ calc.used.S = (IF SuppliedNonZero(calc.live, "stock_price")
                             THEN calc.live.stock_price ELSE calc.S)
           /\ calc.used.sigma = (IF SuppliedNonZero(calc.live, "iv")
                                 THEN calc.live.iv ELSE calc.sigma)
           /\ calc.used.premium = (IF SuppliedNonZero(calc.live, "mark")
                                   THEN calc.live.mark ELSE calc.premium)
           /\ ~calc.live.found
                => /\ calc.greeks = calculate_greeks(calc.S, calc.K, calc.used.T, calc.r,
                                                     calc.sigma, calc.option_type)
                   /\ calc.curve = build_pnl_curve(calc.S, calc.K, calc.used.T, calc.r,
                                                   calc.sigma, calc.option_type,
                                                   calc.premium, 0)

\* C28 witness: the fetch failed and the request was priced on its manual
\* inputs, with a curve of 80 points.
C28_Witness ==
    /\ calc.fn = "greeks_expiration"
    /\ ~calc.live.found
    /\ calc.status = 200
    /\ calc.used.S = calc.S
    /\ calc.greeks.kind = "priced"
    /\ Len(calc.curve) = CurvePoints

====
